---------------------------- MODULE Spec2Model ----------------------------
(***************************************************************************)
(* Model of src/app.py: the ETH price cache (get_eth_price), the CSV       *)
(* historical log (save_to_csv / read_csv_data), the annualized revenue    *)
(* projection (calculate_annualized_revenue), the metrics computation      *)
(* (get_blob_metrics) and the three Flask routes.                          *)
(*                                                                         *)
(* Python numbers (unbounded ints and floats) are modelled as exact        *)
(* non-negative rationals in factored form  n * 2^a * 5^b / d  with n and  *)
(* d coprime to 10 and to each other, so that 10^18, 131072 = 2^17 and     *)
(* their products stay within TLC's integers.  Floating-point rounding is  *)
(* not modelled.                                                           *)
(***************************************************************************)
EXTENDS Integers, Sequences, FiniteSets, TLC

\* ------------------------------------------------------------------------
\* Python values
\* ------------------------------------------------------------------------

None == [t |-> "None"]

RECURSIVE Gcd(_, _)
Gcd(x, y) == IF y = 0 THEN x ELSE Gcd(y, x % y)

RECURSIVE Pow(_, _)
Pow(base, k) == IF k = 0 THEN 1 ELSE base * Pow(base, k - 1)

\* the exponent of prime p in m (m > 0)
RECURSIVE Val(_, _)
Val(m, p) == IF m % p = 0 THEN 1 + Val(m \div p, p) ELSE 0

Min(x, y) == IF x <= y THEN x ELSE y

Zero == [t |-> "num", n |-> 0, d |-> 1, a |-> 0, b |-> 0]

\* the number  n0 * 2^a0 * 5^b0 / d0  in normal form (n0 >= 0, d0 > 0)
Norm(n0, d0, a0, b0) ==
  IF n0 = 0 THEN Zero
  ELSE LET g  == Gcd(n0, d0)
           n1 == n0 \div g
           d1 == d0 \div g
           n2 == Val(n1, 2)
           n5 == Val(n1, 5)
           d2 == Val(d1, 2)
           d5 == Val(d1, 5)
       IN  [t |-> "num",
            n |-> n1 \div (Pow(2, n2) * Pow(5, n5)),
            d |-> d1 \div (Pow(2, d2) * Pow(5, d5)),
            a |-> a0 + n2 - d2,
            b |-> b0 + n5 - d5]

IsNum(v) == v.t = "num"

FromInt(i) == Norm(i, 1, 0, 0)

Mul(x, y) == Norm(x.n * y.n, x.d * y.d, x.a + y.a, x.b + y.b)

Div(x, y) == Norm(x.n * y.d, x.d * y.n, x.a - y.a, x.b - y.b)

Add(x, y) ==
  IF x.n = 0 THEN y
  ELSE IF y.n = 0 THEN x
  ELSE LET am == Min(x.a, y.a)
           bm == Min(x.b, y.b)
           xn == x.n * Pow(2, x.a - am) * Pow(5, x.b - bm)
           yn == y.n * Pow(2, y.a - am) * Pow(5, y.b - bm)
       IN  Norm(xn * y.d + yn * x.d, x.d * y.d, am, bm)

\* 10^k as a number
Pow10(k) == [t |-> "num", n |-> 1, d |-> 1, a |-> k, b |-> k]


\* ------------------------------------------------------------------------
\* Price cache: eth_price_cache and get_eth_price
\* ------------------------------------------------------------------------

\* the freshness window of get_eth_price, in seconds
FRESH_WINDOW == 300

\* the placeholder price of the initial cache entry
DEFAULT_PRICE == 4000

InitCache == [price |-> FromInt(DEFAULT_PRICE), last_update |-> 0]

\* line 25 with the window one second short
CacheFreshShort(current_time, last_update) ==
  current_time - last_update < FRESH_WINDOW - 1

\* line 25 with <= for <
CacheFreshInclusive(current_time, last_update) ==
  current_time - last_update <= FRESH_WINDOW

\* line 25: the cached price is used when it is less than 5 minutes old
CacheFresh(current_time, last_update) == current_time - last_update < FRESH_WINDOW

\* What requests.get(...) / response.json() / data['ethereum']['usd'] yield
\* for one oracle reply: the price, or the exception raised inside the try.
\* A reply is a timeout, a connection error, a body that is no JSON, or a
\* JSON object (a record; JSON null is None).
OraclePrice(reply) ==
  IF reply.k = "timeout" THEN [exc |-> "Timeout", price |-> None]
  ELSE IF reply.k = "connection_error" THEN [exc |-> "ConnectionError", price |-> None]
  ELSE IF reply.k = "not_json" THEN [exc |-> "JSONDecodeError", price |-> None]
  ELSE IF "ethereum" \notin DOMAIN reply.body THEN [exc |-> "KeyError", price |-> None]
  ELSE IF "usd" \notin DOMAIN reply.body.ethereum THEN [exc |-> "KeyError", price |-> None]
  ELSE [exc |-> "", price |-> reply.body.ethereum.usd]

\* lines 36-38: the cache after a fetch that raised nothing
CacheUpdate(cache, price, current_time) ==
  [price |-> price, last_update |-> current_time]

\* get_eth_price: the value returned, the cache afterwards, the number of
\* oracle requests made and the exception swallowed by the except clause.
GetEthPrice(cache, current_time, reply) ==
  IF CacheFresh(current_time, cache.last_update)
  THEN [ret |-> cache.price, cache |-> cache, fetches |-> 0, swallowed |-> ""]
  ELSE LET f == OraclePrice(reply)
       IN  IF f.exc = ""
           THEN [ret |-> f.price, cache |-> CacheUpdate(cache, f.price, current_time),
                 fetches |-> 1, swallowed |-> ""]
           ELSE [ret |-> cache.price, cache |-> cache, fetches |-> 1,
                 swallowed |-> f.exc]

\* ------------------------------------------------------------------------
\* Historical log: save_to_csv, read_csv_data
\* ------------------------------------------------------------------------

\* the text csv.writer writes for a number, which float() reads back
NumText(v) == [t |-> "text", num |-> TRUE, v |-> v]

\* a cell holding text that is no number
OtherText(s) == [t |-> "text", num |-> FALSE, s |-> s]

\* the text of a '%Y-%m-%d %H:%M:%S' timestamp
TimeText(at) == [t |-> "text", num |-> FALSE, at |-> at]

\* float(cell) on a cell of a row returned by csv.DictReader: a cell of a row
\* shorter than the header is None (DictReader's restval)
FloatOf(cell) ==
  IF cell.t = "None" THEN [exc |-> "TypeError", v |-> Zero]
  ELSE IF cell.num THEN [exc |-> "", v |-> cell.v]
  ELSE [exc |-> "ValueError", v |-> Zero]

\* lines 71-86: the row written for data
CsvRow(data) ==
  [timestamp           |-> TimeText(data.timestamp),
   block_number        |-> NumText(data.block_number),
   blob_fee_wei        |-> NumText(data.blob_fee_wei_raw),
   blob_fee_eth        |-> NumText(data.blob_fee_eth_raw),
   cost_per_blob_eth   |-> NumText(data.cost_per_blob_eth_raw),
   cost_per_blob_usd   |-> NumText(data.cost_per_blob_usd_raw),
   blob_gas_used       |-> NumText(data.blob_gas_used_raw),
   block_revenue_eth   |-> NumText(data.block_revenue_eth_raw),
   block_revenue_usd   |-> NumText(data.block_revenue_usd_raw),
   base_fee_wei        |-> NumText(data.base_fee_wei_raw),
   gas_used            |-> NumText(data.gas_used_raw),
   base_fee_burned_eth |-> NumText(data.base_fee_burned_eth_raw),
   base_fee_burned_usd |-> NumText(data.base_fee_burned_usd_raw),
   eth_price           |-> NumText(data.eth_price)]

\* save_to_csv with the file opened in write mode
SaveToCsvTruncating(file, data) == <<CsvRow(data)>>

\* save_to_csv: the file is opened in append mode and one row is written
SaveToCsv(file, data) == Append(file, CsvRow(data))

\* read_csv_data: every row of the file, in file order
ReadCsvData(file) == file

\* ------------------------------------------------------------------------
\* calculate_annualized_revenue
\* ------------------------------------------------------------------------

\* line 107: at least one hour of data, at one sample per minute
MIN_SAMPLES == 60

\* line 125
SAMPLES_PER_HOUR == 60

\* line 131
HOURS_PER_YEAR == 8760

\* lines 111-116 for one row: the exception raised by
\* float(row['block_revenue_usd']), "" when there is none
RevenueOf(row) ==
  IF "block_revenue_usd" \notin DOMAIN row THEN [exc |-> "KeyError", v |-> Zero]
  ELSE FloatOf(row.block_revenue_usd)

\* line 115: the exceptions the loop skips a row for
Skipped(exc) == exc \in {"ValueError", "KeyError"}

\* the sum of the revenues of rows lo..hi that parse (halving the range
\* keeps the evaluation shallow; the arithmetic is exact, so the order of
\* the additions does not matter)
RECURSIVE SumRevenues(_, _, _)
SumRevenues(data, lo, hi) ==
  IF lo > hi THEN Zero
  ELSE IF lo = hi
       THEN LET r == RevenueOf(data[lo]) IN IF r.exc = "" THEN r.v ELSE Zero
       ELSE LET mid == (lo + hi) \div 2
            IN  Add(SumRevenues(data, lo, mid), SumRevenues(data, mid + 1, hi))

\* lines 111-116: the loop over the rows: the exception that escapes it (that
\* of the first row whose exception is not skipped), else the length and
\* the sum of recent_revenues
RecentRevenues(data) ==
  LET raising == {i \in 1..Len(data) :
                    LET e == RevenueOf(data[i]).exc IN e # "" /\ ~Skipped(e)}
      parsed  == {i \in 1..Len(data) : RevenueOf(data[i]).exc = ""}
  IN  IF raising # {}
      THEN [exc |-> RevenueOf(data[CHOOSE i \in raising : \A j \in raising : i <= j]).exc,
            count |-> 0, sum |-> Zero]
      ELSE [exc |-> "", count |-> Cardinality(parsed),
            sum |-> SumRevenues(data, 1, Len(data))]

\* line 107 with the threshold one sample short
TooFewSamplesOffByOne(len) == len < MIN_SAMPLES - 1

\* lines 103-108: too little data for a projection
TooFewSamples(len) == len < MIN_SAMPLES

\* calculate_annualized_revenue over the rows read: the value returned (None
\* or a number) or the exception raised
CalculateAnnualizedRevenue(data) ==
  IF Len(data) = 0 THEN [exc |-> "", ret |-> None]
  ELSE IF TooFewSamples(Len(data)) THEN [exc |-> "", ret |-> None]
  ELSE LET rr == RecentRevenues(data)
       IN  IF rr.exc # "" THEN [exc |-> rr.exc, ret |-> None]
           ELSE IF rr.count = 0 THEN [exc |-> "", ret |-> None]
           ELSE LET avg_revenue_per_sample == Div(rr.sum, FromInt(rr.count))
                    hourly_revenue == Mul(avg_revenue_per_sample, FromInt(SAMPLES_PER_HOUR))
                IN  [exc |-> "", ret |-> Mul(hourly_revenue, FromInt(HOURS_PER_YEAR))]

\* ------------------------------------------------------------------------
\* Chain client: get_blob_base_fee, get_block_info
\* ------------------------------------------------------------------------

\* int(digits, 16) for the hex digits after "0x", most significant first
RECURSIVE HexToInt(_)
HexToInt(digits) ==
  IF Len(digits) = 0 THEN 0
  ELSE 16 * HexToInt(SubSeq(digits, 1, Len(digits) - 1)) + digits[Len(digits)]

\* get_blob_base_fee for one reply of the node to eth_blobBaseFee: a
\* transport error raised by make_request, or the JSON-RPC body
GetBlobBaseFee(reply) ==
  IF reply.k = "error" THEN [exc |-> "ConnectionError", ret |-> Zero]
  ELSE IF "result" \notin DOMAIN reply.body THEN [exc |-> "KeyError", ret |-> Zero]
  ELSE [exc |-> "", ret |-> FromInt(HexToInt(reply.body.result))]

\* block.get(key, 0)
BlockGet(block, key) == IF key \in DOMAIN block THEN block[key] ELSE Zero

\* get_block_info with a failed request answered by an all-zero block
GetBlockInfoDefaulting(reply) ==
  [exc |-> "",
   ret |-> IF reply.k = "error"
           THEN [block_number |-> Zero, blob_gas_used |-> Zero,
                 base_fee_per_gas |-> Zero, gas_used |-> Zero, timestamp |-> Zero]
           ELSE [block_number     |-> reply.block.number,
                 blob_gas_used    |-> BlockGet(reply.block, "blobGasUsed"),
                 base_fee_per_gas |-> BlockGet(reply.block, "baseFeePerGas"),
                 gas_used         |-> BlockGet(reply.block, "gasUsed"),
                 timestamp        |-> reply.block.timestamp]]

\* get_block_info for one reply of the node to get_block('latest')
GetBlockInfo(reply) ==
  IF reply.k = "error" THEN [exc |-> "ConnectionError", ret |-> None]
  ELSE [exc |-> "",
        ret |-> [block_number     |-> reply.block.number,
                 blob_gas_used    |-> BlockGet(reply.block, "blobGasUsed"),
                 base_fee_per_gas |-> BlockGet(reply.block, "baseFeePerGas"),
                 gas_used         |-> BlockGet(reply.block, "gasUsed"),
                 timestamp        |-> reply.block.timestamp]]

\* ------------------------------------------------------------------------
\* Metrics: wei_to_eth, calculate_cost_per_blob, calculate_block_revenue,
\* get_blob_metrics
\* ------------------------------------------------------------------------

\* line 142: wei / 1e18
WeiToEth(wei) == Div(wei, Pow10(18))

\* line 146
BLOB_GAS_PER_BLOB == 131072

CalculateCostPerBlob(blob_base_fee_wei) ==
  LET cost_wei == Mul(blob_base_fee_wei, FromInt(BLOB_GAS_PER_BLOB))
  IN  WeiToEth(cost_wei)

\* calculate_block_revenue charging every block for one blob
CalculateBlockRevenueOneBlob(blob_base_fee_wei, blob_gas_used) ==
  WeiToEth(Mul(blob_base_fee_wei, FromInt(BLOB_GAS_PER_BLOB)))

CalculateBlockRevenue(blob_base_fee_wei, blob_gas_used) ==
  LET revenue_wei == Mul(blob_base_fee_wei, blob_gas_used)
  IN  WeiToEth(revenue_wei)

\* line 186-187
BaseFeeBurnedEth(base_fee_per_gas, gas_used) ==
  WeiToEth(Mul(base_fee_per_gas, gas_used))

\* lines 192-222: the dict built from the values fetched and computed (the
\* formatted display strings are left out; annualized_revenue_usd is the
\* value, None standing for "Need 1hr+ data")
MetricsData(at, eth_price, blob_fee_wei, block_info, annualized_revenue) ==
  LET blob_fee_eth == WeiToEth(blob_fee_wei)
      cost_per_blob == CalculateCostPerBlob(blob_fee_wei)
      block_revenue == CalculateBlockRevenue(blob_fee_wei, block_info.blob_gas_used)
      base_fee_burned_eth ==
        BaseFeeBurnedEth(block_info.base_fee_per_gas, block_info.gas_used)
  IN  [timestamp               |-> at,
       block_number            |-> block_info.block_number,
       eth_price               |-> eth_price,
       annualized_revenue_usd  |-> annualized_revenue,
       fee_is_zero             |-> (blob_fee_wei = Zero),
       blob_fee_wei_raw        |-> blob_fee_wei,
       blob_fee_eth_raw        |-> blob_fee_eth,
       cost_per_blob_eth_raw   |-> cost_per_blob,
       cost_per_blob_usd_raw   |-> Mul(cost_per_blob, eth_price),
       blob_gas_used_raw       |-> block_info.blob_gas_used,
       block_revenue_eth_raw   |-> block_revenue,
       block_revenue_usd_raw   |-> Mul(block_revenue, eth_price),
       base_fee_wei_raw        |-> block_info.base_fee_per_gas,
       gas_used_raw            |-> block_info.gas_used,
       base_fee_burned_eth_raw |-> base_fee_burned_eth,
       base_fee_burned_usd_raw |-> Mul(base_fee_burned_eth, eth_price)]

\* The order in which get_blob_metrics reaches its collaborators.
StepsPrice(p) == IF p.fetches = 0 THEN <<"price_cache">>
                 ELSE <<"price_cache", "price_oracle">>

\* get_blob_metrics at clock reading at: the exception raised ("" when it
\* returns), the dict returned, the cache and the file afterwards, and the
\* collaborators reached, in order
GetBlobMetrics(cache, file, at, oracle, feeReply, blockReply) ==
  LET p    == GetEthPrice(cache, at, oracle)
      fee  == GetBlobBaseFee(feeReply)
      blk  == GetBlockInfo(blockReply)
      \* line 190, before the row of this call is saved at line 225
      ann  == CalculateAnnualizedRevenue(ReadCsvData(file))
      s1   == StepsPrice(p)
      s2   == Append(s1, "chain_blob_fee")
      s3   == Append(s2, "chain_block")
      s4   == Append(s3, "log_read")
      fail(e, st) == [exc |-> e, data |-> None, cache |-> p.cache, file |-> file,
                      steps |-> st, price |-> p]
  IN  IF fee.exc # "" THEN fail(fee.exc, s2)
      ELSE IF blk.exc # "" THEN fail(blk.exc, s3)
      ELSE IF ann.exc # "" THEN fail(ann.exc, s4)
      \* line 198: float * eth_price
      ELSE IF ~IsNum(p.ret) THEN fail("TypeError", s4)
      ELSE LET data == MetricsData(at, p.ret, fee.ret, blk.ret, ann.ret)
           IN  [exc |-> "", data |-> data, cache |-> p.cache,
                file |-> SaveToCsv(file, data),
                steps |-> Append(s4, "log_append"), price |-> p]

\* ------------------------------------------------------------------------
\* State
\* ------------------------------------------------------------------------

VARIABLES
  phase,            \* "boot" before __main__ has run, then "serving" or "exited"
  now,              \* the wall clock, in seconds
  ticks,            \* how often the clock has advanced
  eth_price_cache,  \* the module-level dict of line 18
  log,              \* the data rows of blob_data.csv, in file order
  resp,             \* the response to the latest HTTP request
  call,             \* the latest call of get_eth_price, as observed
  lastOk,           \* the latest call of get_eth_price whose fetch raised nothing
  result,           \* the outcome of the latest calculate_annualized_revenue
  pc,               \* per thread: its place in get_eth_price
  local,            \* per thread: current_time, price and the fetch it made
  cache_src,        \* which fetch wrote each field of eth_price_cache
  nfetch,           \* oracle requests made by the threads
  overlap           \* whether two calls of get_eth_price have been in flight at once

vars == <<phase, now, ticks, eth_price_cache, log, resp, call, lastOk, result,
          pc, local, cache_src, nfetch, overlap>>

\* ------------------------------------------------------------------------
\* Bounds and inputs
\* ------------------------------------------------------------------------

\* the clock reading when the process starts
StartTime == 1000

\* how often the clock advances in one behaviour
MaxTicks == 2

\* rows appended in one behaviour
MaxAppend == 2

JsonPrice(usd) == [k |-> "json", body |-> [ethereum |-> [usd |-> usd]]]

\* replies of the price oracle that raise inside the try of get_eth_price: a
\* timeout, a connection error, a body that is no JSON, an error body
\* without the ethereum key (as sent with a non-200 status)
OracleFailures ==
  { [k |-> "timeout"], [k |-> "connection_error"], [k |-> "not_json"],
    [k |-> "json", body |-> [status |-> "rate limited"]] }

\* a reply whose usd value is JSON null
NullPrice == JsonPrice(None)

Blob0x0 == [k |-> "json", body |-> [result |-> <<0>>]]
Blob0x1 == [k |-> "json", body |-> [result |-> <<1>>]]
\* 0x3b9aca00, 1 gwei
BlobGwei == [k |-> "json", body |-> [result |-> <<3, 11, 9, 10, 12, 10, 0, 0>>]]
FeeError == [k |-> "error"]
FeeRpcError == [k |-> "json", body |-> [error |-> "method not found"]]

BlockError == [k |-> "error"]
\* a block without the blob and fee fields
BlockBare ==
  [k |-> "block", block |-> [number |-> FromInt(100), timestamp |-> FromInt(12)]]
BlockOneBlob ==
  [k |-> "block", block |-> [number |-> FromInt(101), timestamp |-> FromInt(24),
                             blobGasUsed |-> FromInt(BLOB_GAS_PER_BLOB),
                             baseFeePerGas |-> Mul(FromInt(12), Pow10(9)),
                             gasUsed |-> FromInt(15000000)]]
BlockThreeBlobs ==
  [k |-> "block", block |-> [number |-> FromInt(102), timestamp |-> FromInt(36),
                             blobGasUsed |-> FromInt(3 * BLOB_GAS_PER_BLOB),
                             baseFeePerGas |-> Mul(FromInt(7), Pow10(9)),
                             gasUsed |-> FromInt(30000000)]]

\* the row an earlier run wrote for a block without blobs
QuietRow(at) ==
  CsvRow(MetricsData(at, FromInt(DEFAULT_PRICE), FromInt(1),
                     [block_number |-> FromInt(99), blob_gas_used |-> Zero,
                      base_fee_per_gas |-> Mul(FromInt(12), Pow10(9)),
                      gas_used |-> FromInt(15000000), timestamp |-> FromInt(0)],
                     None))

\* the file as earlier runs left it: empty, or one row short of an hour
EarlierRows == MIN_SAMPLES - 1

EarlierLog == [i \in 1..EarlierRows |-> QuietRow(i)]

AppendAllowed(file) ==
  \/ Len(file) < MaxAppend
  \/ EarlierRows <= Len(file) /\ Len(file) < EarlierRows + MaxAppend

NoCall == [t |-> -1, before |-> InitCache, after |-> InitCache, ret |-> None,
           fetches |-> 0, swallowed |-> "", reply |-> [k |-> "none"],
           prev_t |-> -1, prev_ret |-> None]

NoInputs == [fee |-> [k |-> "none"], block |-> [k |-> "none"]]

NoResp == [route |-> "", req |-> 0, status |-> 0, exc |-> "", data |-> None,
           steps |-> <<>>, rows |-> <<>>, inputs |-> NoInputs]

Threads == {1, 2}

IdleLocal == [current_time |-> 0, price |-> None, fetch |-> 0]

InitCommon ==
  /\ phase = "boot"
  /\ now = StartTime
  /\ ticks = 0
  /\ eth_price_cache = InitCache
  /\ resp = NoResp
  /\ call = NoCall
  /\ lastOk = NoCall
  /\ result = [len |-> -1, exc |-> "", ret |-> None]
  /\ pc = [th \in Threads |-> "idle"]
  /\ local = [th \in Threads |-> IdleLocal]
  /\ cache_src = [price |-> 0, last_update |-> 0]
  /\ nfetch = 0
  /\ overlap = FALSE

\* ------------------------------------------------------------------------
\* The serving process, one request at a time
\* ------------------------------------------------------------------------

Tick(d) ==
  /\ ticks < MaxTicks
  /\ now' = now + d
  /\ ticks' = ticks + 1
  /\ UNCHANGED <<phase, eth_price_cache, log, resp, call, lastOk, result,
                 pc, local, cache_src, nfetch, overlap>>

\* what an observer of one call of get_eth_price records
CallRecord(before, at, reply, p) ==
  [t |-> at, before |-> before, after |-> p.cache, ret |-> p.ret,
   fetches |-> p.fetches, swallowed |-> p.swallowed,
   reply |-> IF p.fetches = 0 THEN [k |-> "none"] ELSE reply,
   prev_t |-> call.t, prev_ret |-> call.ret]

FetchedOk(c) == c.fetches = 1 /\ c.swallowed = ""

ObservePrice(before, at, reply, p) ==
  /\ call' = CallRecord(before, at, reply, p)
  /\ lastOk' = IF FetchedOk(call') THEN call' ELSE lastOk

\* lines 256-272: init_csv keeps an existing file; the process exits when the
\* node is not connected, else fetches the price once and starts serving
Main(connected, oracle) ==
  /\ phase = "boot"
  /\ IF ~connected
     THEN /\ phase' = "exited"
          /\ UNCHANGED <<eth_price_cache, call, lastOk>>
     ELSE \E p \in {GetEthPrice(eth_price_cache, now, oracle)} :
              /\ phase' = "serving"
              /\ eth_price_cache' = p.cache
              /\ ObservePrice(eth_price_cache, now, oracle, p)
  /\ UNCHANGED <<now, ticks, log, resp, result, pc, local, cache_src, nfetch, overlap>>

\* index and api_data: get_blob_metrics inside try/except; any exception
\* becomes a 500 response
MetricsRoute(route, oracle, feeReply, blockReply) ==
  /\ phase = "serving"
  /\ AppendAllowed(log)
  /\ \E m \in {GetBlobMetrics(eth_price_cache, log, now, oracle, feeReply, blockReply)} :
         /\ eth_price_cache' = m.cache
         /\ log' = m.file
         /\ ObservePrice(eth_price_cache, now, oracle, m.price)
         /\ resp' = [route |-> route, req |-> 1 - resp.req,
                     status |-> IF m.exc = "" THEN 200 ELSE 500,
                     exc |-> m.exc, data |-> m.data, steps |-> m.steps,
                     rows |-> <<>>,
                     inputs |-> [fee |-> feeReply, block |-> blockReply]]
  /\ UNCHANGED <<phase, now, ticks, result, pc, local, cache_src, nfetch, overlap>>

Index(oracle, feeReply, blockReply) == MetricsRoute("/", oracle, feeReply, blockReply)

ApiData(oracle, feeReply, blockReply) ==
  MetricsRoute("/api/data", oracle, feeReply, blockReply)

\* api_history: the rows of the file, as read
ApiHistory ==
  /\ phase = "serving"
  /\ resp' = [route |-> "/api/history", req |-> 1 - resp.req, status |-> 200,
              exc |-> "", data |-> None, steps |-> <<"log_read">>,
              rows |-> ReadCsvData(log), inputs |-> NoInputs]
  /\ UNCHANGED <<phase, now, ticks, eth_price_cache, log, call, lastOk, result,
                 pc, local, cache_src, nfetch, overlap>>

\* ------------------------------------------------------------------------
\* Spec: the serving process over a file that is empty or one row short of
\* an hour of data
\* ------------------------------------------------------------------------

Init ==
  /\ InitCommon
  /\ log \in {<<>>, EarlierLog}

SpecOracle == {[k |-> "timeout"], JsonPrice(FromInt(2000)), NullPrice}
SpecFee == {FeeError, Blob0x1}
SpecBlock == {BlockError, BlockOneBlob}

Next ==
  \/ Tick(FRESH_WINDOW)
  \/ \E c \in BOOLEAN, o \in SpecOracle : Main(c, o)
  \/ \E o \in SpecOracle, f \in SpecFee, b \in SpecBlock : Index(o, f, b)
  \/ \E o \in SpecOracle, f \in SpecFee, b \in SpecBlock : ApiData(o, f, b)
  \/ ApiHistory

Spec == Init /\ [][Next]_vars

MetricsRoutes == {"/", "/api/data"}

\* the state right after a request to / or /api/data
Served == resp.route \in MetricsRoutes

FeeFailed(reply) == reply.k = "error" \/ "result" \notin DOMAIN reply.body

BlockFailed(reply) == reply.k = "error"

ChainFailed(inputs) == FeeFailed(inputs.fee) \/ BlockFailed(inputs.block)

Count(seq, x) == Cardinality({i \in 1..Len(seq) : seq[i] = x})

\* a step taken by a request to / or /api/data
Requested == resp'.req # resp.req /\ resp'.route \in MetricsRoutes

\* C4: when the blob-base-fee request or the latest-block request fails, the
\* request fails as a whole: no row is appended, the response is an error
\* with status 500, and neither chain request is made a second time.
C4_NoPartialRecord ==
  [][(Requested /\ ChainFailed(resp'.inputs)) =>
       /\ log' = log
       /\ resp'.status = 500
       /\ resp'.data = None
       /\ Count(resp'.steps, "chain_blob_fee") <= 1
       /\ Count(resp'.steps, "chain_block") <= 1
       /\ Count(resp'.steps, "log_append") = 0]_vars

\* the fee request succeeded, the block request failed, the price was
\* fetched and cached, and the file holds the same rows as before
C4_Witness ==
  /\ Served
  /\ ~FeeFailed(resp.inputs.fee)
  /\ BlockFailed(resp.inputs.block)
  /\ resp.status = 500
  /\ resp.steps = <<"price_cache", "price_oracle", "chain_blob_fee", "chain_block">>
  /\ eth_price_cache.price = FromInt(2000)
  /\ Len(log) = EarlierRows + 1

\* C5: the log is append-only: every step leaves it as it is or adds one row
\* at its end; a successful request to / or /api/data adds exactly one row,
\* that of the observation returned; /api/history and every other step
\* leave it unchanged.
C5_AppendOnly ==
  [][/\ \/ log' = log
        \/ Len(log') = Len(log) + 1 /\ SubSeq(log', 1, Len(log)) = log
     /\ (Requested /\ resp'.status = 200) =>
          /\ Len(log') = Len(log) + 1
          /\ log'[Len(log')].timestamp = TimeText(resp'.data.timestamp)
          /\ log'[Len(log')].block_revenue_usd = NumText(resp'.data.block_revenue_usd_raw)
     /\ (resp'.req # resp.req /\ resp'.route = "/api/history") =>
          (log' = log /\ resp'.rows = log)
     /\ (resp'.req = resp.req \/ resp'.status # 200) => log' = log]_vars

\* two rows appended after the rows of earlier runs, then the history read
C5_Witness ==
  /\ resp.route = "/api/history"
  /\ Len(resp.rows) = EarlierRows + 2
  /\ resp.rows = log

\* C7: when both chain requests succeed the request succeeds and appends its
\* observation, whatever the price oracle replied, and the eth_price of
\* every row is a positive number.
C7_OnlyChainFailureSurfaces ==
  /\ (Served /\ ~ChainFailed(resp.inputs)) =>
       /\ resp.status = 200
       /\ resp.steps[Len(resp.steps)] = "log_append"
  /\ \A i \in 1..Len(log) :
       FloatOf(log[i].eth_price).exc = "" /\ FloatOf(log[i].eth_price).v.n > 0

\* C9 as claimed: the chain requests come first, the row is appended before
\* the log is read for the projection, and the request that appends the
\* 60th row returns a projection.
C9_AppendBeforeRead ==
  (Served /\ resp.status = 200) =>
    /\ resp.steps[1] = "chain_blob_fee"
    /\ resp.steps[Len(resp.steps)] = "log_read"
    /\ (Len(log) >= MIN_SAMPLES => resp.data.annualized_revenue_usd # None)

StepOrder == <<"price_cache", "price_oracle", "chain_blob_fee", "chain_block",
               "log_read", "log_append">>

\* seq without the entries equal to x
Without(seq, x) == SelectSeq(seq, LAMBDA y : y # x)

IsPrefix(a, b) == Len(a) <= Len(b) /\ SubSeq(b, 1, Len(a)) = a

\* C9 as the code has it: the price cache comes first (with the oracle when
\* the cache is stale), then the two chain requests, then the log is read for
\* the projection, then the row is appended; the projection is computed
\* without the request's own row, so the request that appends the 60th row
\* returns none and the one that appends the 61st returns one.
C9_ReadBeforeAppend ==
  Served =>
    /\ IsPrefix(Without(resp.steps, "price_oracle"), Without(StepOrder, "price_oracle"))
    /\ Count(resp.steps, "price_oracle") = call.fetches
    /\ Count(resp.steps, "price_oracle") = 1 => resp.steps[2] = "price_oracle"
    /\ resp.status = 200 =>
         /\ Without(resp.steps, "price_oracle") = Without(StepOrder, "price_oracle")
         /\ Len(log) <= MIN_SAMPLES => resp.data.annualized_revenue_usd = None
         /\ Len(log) > MIN_SAMPLES => resp.data.annualized_revenue_usd # None

\* the request that appended the 61st row, after an oracle request
C9_Witness ==
  /\ Served
  /\ resp.status = 200
  /\ resp.steps = StepOrder
  /\ Len(log) = MIN_SAMPLES + 1
  /\ resp.data.annualized_revenue_usd # None

\* ------------------------------------------------------------------------
\* SpecPrice: the price cache under every oracle reply, with the clock
\* advancing by a second or by one second less than the window
\* ------------------------------------------------------------------------

InitPrice ==
  /\ InitCommon
  /\ log = <<>>

PriceOracle ==
  OracleFailures \cup {JsonPrice(FromInt(2000)), JsonPrice(FromInt(3000)), NullPrice}

NextPrice ==
  \/ \E d \in {1, FRESH_WINDOW - 1} : Tick(d)
  \/ \E c \in BOOLEAN, o \in PriceOracle : Main(c, o)
  \/ \E o \in PriceOracle, f \in {FeeError, Blob0x1} : ApiData(o, f, BlockOneBlob)

SpecPrice == InitPrice /\ [][NextPrice]_vars

\* the clock reading less the cache's last_update_time, at the latest call
Age(c) == c.t - c.before.last_update

\* C1: a call of get_eth_price made less than 300 s after last_update returns
\* the cached price, makes no oracle request and leaves both cache fields
\* as they were.
C1_CacheHit ==
  (call.t >= 0 /\ Age(call) < FRESH_WINDOW) =>
    /\ call.ret = call.before.price
    /\ call.fetches = 0
    /\ call.after = call.before
    /\ eth_price_cache = call.before

\* a hit on the last second of the window, on a price that was fetched
C1_Witness ==
  /\ call.t >= 0
  /\ Age(call) = FRESH_WINDOW - 1
  /\ call.ret = FromInt(3000)
  /\ call.fetches = 0

\* what the claims call a failed fetch: any reply but a JSON body whose
\* ethereum.usd is a number
WellFormed(reply) ==
  /\ reply.k = "json"
  /\ "ethereum" \in DOMAIN reply.body
  /\ "usd" \in DOMAIN reply.body.ethereum
  /\ IsNum(reply.body.ethereum.usd)

\* C2: when a refresh is attempted and the fetch fails (timeout, network
\* error, malformed response), the call returns the price cached before it
\* and leaves the cache unchanged; once a fetch has succeeded the price
\* returned is never null.
C2_FailureKeepsCache ==
  /\ (call.fetches = 1 /\ ~WellFormed(call.reply)) =>
       /\ call.ret = call.before.price
       /\ call.after = call.before
  /\ (lastOk.t >= 0 /\ call.t >= 0) => IsNum(call.ret)

\* C3 as claimed: of two calls less than 300 s apart the second returns the
\* price of the first and makes no oracle request, whatever the first did;
\* a call after the window makes exactly one request.
C3_AnyTwoCalls ==
  /\ (call.prev_t >= 0 /\ call.t - call.prev_t < FRESH_WINDOW) =>
       (call.ret = call.prev_ret /\ call.fetches = 0)
  /\ (call.t >= 0 /\ Age(call) >= FRESH_WINDOW) => call.fetches = 1

\* C3 as the code has it: a call made less than 300 s after a call whose
\* fetch succeeded returns that call's price and makes no oracle request;
\* a call made 300 s or more after last_update makes exactly one request.
C3_AfterSuccessfulFetch ==
  /\ (lastOk.t >= 0 /\ call # lastOk /\ call.t - lastOk.t < FRESH_WINDOW) =>
       (call.ret = lastOk.ret /\ call.fetches = 0)
  /\ (call.t >= 0 /\ Age(call) >= FRESH_WINDOW) => call.fetches = 1
  /\ (call.t >= 0 /\ Age(call) < FRESH_WINDOW) => call.fetches = 0

\* a call on the last second of the window of an earlier call that fetched
C3_Witness ==
  /\ lastOk.t >= 0
  /\ call # lastOk
  /\ call.t - lastOk.t = FRESH_WINDOW - 1
  /\ call.fetches = 0
  /\ call.ret = FromInt(2000)

\* ------------------------------------------------------------------------
\* SpecArith: the derived fields over several fees, blocks and prices
\* ------------------------------------------------------------------------

InitArith ==
  /\ InitCommon
  /\ log = <<>>

NextArith ==
  \/ \E c \in BOOLEAN, o \in {[k |-> "timeout"], JsonPrice(FromInt(2000)),
                              JsonPrice(FromInt(3000))} : Main(c, o)
  \/ \E f \in {Blob0x0, Blob0x1, BlobGwei},
        b \in {BlockBare, BlockOneBlob, BlockThreeBlobs} :
       ApiData([k |-> "timeout"], f, b)

SpecArith == InitArith /\ [][NextArith]_vars

\* the number a cell of a stored row reads back as
Stored(row, column) == FloatOf(row[column]).v

InWei(eth) == Mul(eth, Pow10(18))

\* C8: in every stored row, cost_per_blob is blob_fee_wei * 131072 wei,
\* block_revenue is blob_fee_wei * blob_gas_used wei and base_fee_burned is
\* base_fee_wei * gas_used wei, each in ETH; every _usd field is its _eth
\* field times eth_price; cost_per_blob_eth is blob_fee_eth * 131072;
\* block_revenue equals cost_per_blob when blob_gas_used is 131072; and a fee
\* of 1 gwei with 131072 blob gas at price 4000 gives block_revenue_usd
\* 0.524288.
C8_DerivedFields ==
  \A i \in 1..Len(log) :
    LET row   == log[i]
        f     == Stored(row, "blob_fee_wei")
        g     == Stored(row, "blob_gas_used")
        price == Stored(row, "eth_price")
    IN  /\ InWei(Stored(row, "blob_fee_eth")) = f
        /\ InWei(Stored(row, "cost_per_blob_eth")) = Mul(f, FromInt(131072))
        /\ InWei(Stored(row, "block_revenue_eth")) = Mul(f, g)
        /\ InWei(Stored(row, "base_fee_burned_eth")) =
             Mul(Stored(row, "base_fee_wei"), Stored(row, "gas_used"))
        /\ Stored(row, "cost_per_blob_usd") = Mul(Stored(row, "cost_per_blob_eth"), price)
        /\ Stored(row, "block_revenue_usd") = Mul(Stored(row, "block_revenue_eth"), price)
        /\ Stored(row, "base_fee_burned_usd") =
             Mul(Stored(row, "base_fee_burned_eth"), price)
        /\ Stored(row, "cost_per_blob_eth") =
             Mul(Stored(row, "blob_fee_eth"), FromInt(131072))
        /\ g = FromInt(131072) =>
             Stored(row, "block_revenue_eth") = Stored(row, "cost_per_blob_eth")
        /\ (f = FromInt(1000000000) /\ g = FromInt(131072) /\ price = FromInt(4000)) =>
             Stored(row, "block_revenue_usd") = Div(FromInt(524288), Pow10(6))

\* the row of the 1 gwei, one blob, price 4000 example, stored after a row
\* for a block of three blobs
C8_Witness ==
  /\ Served
  /\ resp.status = 200
  /\ Len(log) = 2
  /\ Stored(log[1], "blob_gas_used") = FromInt(393216)
  /\ Stored(log[2], "blob_fee_wei") = FromInt(1000000000)
  /\ Stored(log[2], "blob_gas_used") = FromInt(131072)
  /\ Stored(log[2], "eth_price") = FromInt(4000)
  /\ Stored(log[2], "block_revenue_usd") = Div(FromInt(524288), Pow10(6))

\* ------------------------------------------------------------------------
\* SpecAnn: calculate_annualized_revenue over files with malformed rows
\* ------------------------------------------------------------------------

RowWith(cell) == [QuietRow(0) EXCEPT !.block_revenue_usd = cell]

Ten == RowWith(NumText(FromInt(10)))

Twenty == RowWith(NumText(FromInt(20)))

\* a row whose block_revenue_usd cell is text that is no number
Malformed == RowWith(OtherText("n/a"))

\* a row that ends before the block_revenue_usd column: csv.DictReader fills
\* the columns that are missing with None
ShortRow ==
  [QuietRow(0) EXCEPT !.block_revenue_usd = None, !.base_fee_wei = None,
                      !.gas_used = None, !.base_fee_burned_eth = None,
                      !.base_fee_burned_usd = None, !.eth_price = None]

\* row as read from a file whose header, written by an earlier version,
\* has no block_revenue_usd column
OldSchema(row) == [c \in (DOMAIN row) \ {"block_revenue_usd"} |-> row[c]]

Repeat(row, count) == [i \in 1..count |-> row]

\* the rows a file holds before the rows this behaviour adds
AnnEarlier == MIN_SAMPLES - MaxAppend

AnnLogs ==
  { <<>>,
    Repeat(Ten, AnnEarlier),
    Repeat(Twenty, 50) \o Repeat(Malformed, AnnEarlier - 50),
    Repeat(Malformed, AnnEarlier),
    Repeat(OldSchema(Ten), AnnEarlier) }

InitAnn ==
  /\ InitCommon
  /\ log \in AnnLogs

\* the header of the file has the block_revenue_usd column
HasColumn(file) == file = <<>> \/ "block_revenue_usd" \in DOMAIN file[1]

\* a row is added to the file
AnnAppend(row) ==
  /\ \/ Len(log) < MaxAppend
     \/ AnnEarlier <= Len(log) /\ Len(log) <= MIN_SAMPLES
  /\ log' = Append(log, IF HasColumn(log) THEN row ELSE OldSchema(row))
  /\ UNCHANGED <<phase, now, ticks, eth_price_cache, resp, call, lastOk, result,
                 pc, local, cache_src, nfetch, overlap>>

\* calculate_annualized_revenue is called
Annualize ==
  /\ \E r \in {CalculateAnnualizedRevenue(ReadCsvData(log))} :
       result' = [len |-> Len(log), exc |-> r.exc, ret |-> r.ret]
  /\ UNCHANGED <<phase, now, ticks, eth_price_cache, log, resp, call, lastOk,
                 pc, local, cache_src, nfetch, overlap>>

NextAnn ==
  \/ \E row \in {Ten, Twenty, Malformed, ShortRow} : AnnAppend(row)
  \/ Annualize

SpecAnn == InitAnn /\ [][NextAnn]_vars

\* the rows whose block_revenue_usd reads as a number
Parseable(file) ==
  {i \in 1..Len(file) :
     /\ "block_revenue_usd" \in DOMAIN file[i]
     /\ file[i].block_revenue_usd.t = "text"
     /\ file[i].block_revenue_usd.num}

\* the sum of the block_revenue_usd of the rows lo..hi that are in rows
RECURSIVE SumOver(_, _, _, _)
SumOver(file, rows, lo, hi) ==
  IF lo > hi THEN Zero
  ELSE IF lo = hi
       THEN IF lo \in rows THEN file[lo].block_revenue_usd.v ELSE Zero
       ELSE Add(SumOver(file, rows, lo, (lo + hi) \div 2),
                SumOver(file, rows, (lo + hi) \div 2 + 1, hi))

\* C6: calculate_annualized_revenue never raises; it returns None exactly
\* when the file has fewer than 60 rows or no row's block_revenue_usd reads
\* as a number, and otherwise the mean of the values that do, times 60 times
\* 8760: None for 59 rows of 10, 5,256,000 for 60 rows of 10, 10,512,000 for
\* 50 rows of 20 and 10 malformed rows.
C6_Annualization ==
  result.len = Len(log) =>
    /\ result.exc = ""
    /\ result.ret = None <=> (Len(log) < 60 \/ Parseable(log) = {})
    /\ result.ret # None =>
         Mul(result.ret, FromInt(Cardinality(Parseable(log)))) =
           Mul(SumOver(log, Parseable(log), 1, Len(log)), FromInt(60 * 8760))
    /\ log = Repeat(Ten, 59) => result.ret = None
    /\ log = Repeat(Ten, 60) => result.ret = FromInt(5256000)
    /\ log = Repeat(Twenty, 50) \o Repeat(Malformed, 10) => result.ret = FromInt(10512000)

\* ------------------------------------------------------------------------
\* SpecConc: get_eth_price run by two request threads, one statement at a
\* time (app.run serves each request on a thread of its own)
\* ------------------------------------------------------------------------

\* oracle requests the threads make in one behaviour
MaxFetches == 3

InitConc ==
  /\ InitCommon
  /\ log = <<>>

ConcOracle == {[k |-> "timeout"], JsonPrice(FromInt(2000)), JsonPrice(FromInt(3000))}

\* lines 41-43 with the except clause stamping the cache
AfterFetchStamping(exc) == IF exc = "" THEN "set_price" ELSE "set_time"

\* lines 28-43: after the try body's fetch, the statement that runs next:
\* line 37 when nothing was raised, else the except clause, which returns
AfterFetch(exc) == IF exc = "" THEN "set_price" ELSE "return_cached"

Busy(th) == pc[th] # "idle"

ConcUnchanged == UNCHANGED <<phase, ticks, log, resp, call, lastOk, result>>

\* line 22: current_time = datetime.now().timestamp()
ReadClock(th) ==
  /\ pc[th] = "idle"
  /\ nfetch < MaxFetches
  /\ pc' = [pc EXCEPT ![th] = "check"]
  /\ local' = [local EXCEPT ![th] = [IdleLocal EXCEPT !.current_time = now]]
  /\ overlap' = (overlap \/ \E other \in Threads \ {th} : Busy(other))
  /\ UNCHANGED <<now, eth_price_cache, cache_src, nfetch>>
  /\ ConcUnchanged

\* line 25: the test on the cached last_update
CheckFresh(th) ==
  /\ pc[th] = "check"
  /\ pc' = [pc EXCEPT ![th] =
              IF CacheFresh(local[th].current_time, eth_price_cache.last_update)
              THEN "return_cached" ELSE "fetch"]
  /\ UNCHANGED <<now, eth_price_cache, local, cache_src, nfetch, overlap>>
  /\ ConcUnchanged

\* lines 26 and 43: return eth_price_cache['price']
ReturnCached(th) ==
  /\ pc[th] = "return_cached"
  /\ pc' = [pc EXCEPT ![th] = "idle"]
  /\ local' = [local EXCEPT ![th].price = eth_price_cache.price]
  /\ UNCHANGED <<now, eth_price_cache, cache_src, nfetch, overlap>>
  /\ ConcUnchanged

\* lines 29-34: the oracle request and the extraction of the price
Fetch(th, reply) ==
  /\ pc[th] = "fetch"
  /\ nfetch' = nfetch + 1
  /\ \E f \in {OraclePrice(reply)} :
       /\ pc' = [pc EXCEPT ![th] = AfterFetch(f.exc)]
       /\ local' = [local EXCEPT ![th].price = f.price, ![th].fetch = nfetch']
  /\ UNCHANGED <<now, eth_price_cache, cache_src, overlap>>
  /\ ConcUnchanged

\* line 37: eth_price_cache['price'] = price
SetPrice(th) ==
  /\ pc[th] = "set_price"
  /\ eth_price_cache' = [eth_price_cache EXCEPT !.price = local[th].price]
  /\ cache_src' = [cache_src EXCEPT !.price = local[th].fetch]
  /\ pc' = [pc EXCEPT ![th] = "set_time"]
  /\ UNCHANGED <<now, local, nfetch, overlap>>
  /\ ConcUnchanged

\* line 38: eth_price_cache['last_update'] = current_time; line 40 returns
SetTime(th) ==
  /\ pc[th] = "set_time"
  /\ eth_price_cache' = [eth_price_cache EXCEPT !.last_update = local[th].current_time]
  /\ cache_src' = [cache_src EXCEPT !.last_update = local[th].fetch]
  /\ pc' = [pc EXCEPT ![th] = "idle"]
  /\ UNCHANGED <<now, local, nfetch, overlap>>
  /\ ConcUnchanged

NextConc ==
  \/ \E d \in {1, FRESH_WINDOW} : Tick(d)
  \/ \E th \in Threads : ReadClock(th)
  \/ \E th \in Threads : CheckFresh(th)
  \/ \E th \in Threads : ReturnCached(th)
  \/ \E th \in Threads, o \in ConcOracle : Fetch(th, o)
  \/ \E th \in Threads : SetPrice(th)
  \/ \E th \in Threads : SetTime(th)

SpecConc == InitConc /\ [][NextConc]_vars

AllIdle == \A th \in Threads : pc[th] = "idle"

\* both cache fields were written by the same fetch, or are the initial pair
OneWriter == cache_src.price = cache_src.last_update

\* C10: as long as no two calls of get_eth_price have overlapped, between
\* calls the pair (price, last_update) was written by one single successful
\* fetch or is the initial pair, and last_update never decreases.  (With
\* two calls interleaved this fails: see C10_Witness.)
C10_SerializedCache ==
  /\ [](~overlap /\ AllIdle => OneWriter)
  /\ [][~overlap' => eth_price_cache'.last_update >= eth_price_cache.last_update]_vars

\* two interleaved calls: both fetched for the same expiry (the cache still
\* had last_update 0 when each tested it), the cache is left with the price
\* of the second fetch and the last_update of the first, and the later
\* call's last_update was overwritten by the earlier call's
C10_Witness ==
  /\ overlap
  /\ AllIdle
  /\ nfetch = 2
  /\ cache_src = [price |-> 2, last_update |-> 1]
  /\ \E th \in Threads, other \in Threads :
       /\ local[th].fetch = 1
       /\ local[other].fetch = 2
       /\ local[th].current_time < local[other].current_time
       /\ eth_price_cache.last_update = local[th].current_time
       /\ eth_price_cache.price = local[other].price
       /\ local[th].price # local[other].price

=============================================================================
